---- MODULE Spec2Model ----
(***************************************************************************)
(* k6provider: provider.GetBinary and provider.download (src/provider.go), *)
(* with buildDeps and NewProvider each under a specification of its own.   *)
(*                                                                         *)
(* The cache directory tree is shared by all GetBinary calls and is        *)
(* guarded by no lock, so every filesystem call of GetBinary is one step   *)
(* of the model and the steps of different calls interleave freely.  A     *)
(* return statement touches no shared state: it belongs to the step of the *)
(* last filesystem or network operation before it.  os.Stat, os.MkdirAll,  *)
(* os.OpenFile, os.RemoveAll and a single Write of io.Copy are taken as    *)
(* atomic.  The filesystem is POSIX: a file removed while a handle on it   *)
(* is open stays writable through that handle, and such writes reach no    *)
(* path, so a handle is either on the file at the path or on a removed one.*)
(***************************************************************************)
EXTENDS Integers, Sequences, FiniteSets, TLC

\* ------------------------------------------------------------- bounds
MaxCalls == 2        \* GetBinary calls a goroutine makes, one after the other
BodyLen == 2         \* chunks io.Copy moves from the response body
MaxDeps == 3         \* module names a dependency spec draws its entries from

\* ---------------------------------------------------------- constants
k6Binary == "k6"
k6Module == "k6"
ErrBinary == "creating binary"
ErrBuild == "building binary"
ErrConfig == "invalid configuration"
ErrDependency == "invalid dependency"
ErrDownload == "downloading binary"

S_IRUSR == 256
S_IWUSR == 128
S_IXUSR == 64
StatusOK == 200

CacheRoot == "bidDir"
\* The callers: GetBinary runs on the caller's goroutine, and the calls of
\* different goroutines overlap freely.
Calls == {"g1", "g2"}
BuildIDs == {"a", "b"}

\* What the build service may answer (k6build.Artifact).  The answer for a
\* build identifier is fixed, except that the service may hand out a URL
\* http.NewRequestWithContext cannot parse.
BadURL == "%zz"
Artifacts ==
    { [ID |-> "a", URL |-> "https://svc/a/k6", Checksum |-> "sum-a",
       Dependencies |-> <<"k6", "v0.50.0">>],
      [ID |-> "b", URL |-> "https://svc/b/k6", Checksum |-> "sum-b",
       Dependencies |-> <<"k6", "v0.51.0">>],
      [ID |-> "b", URL |-> BadURL, Checksum |-> "sum-b",
       Dependencies |-> <<"k6", "v0.51.0">>] }
NoArtifact == [ID |-> "", URL |-> "", Checksum |-> "", Dependencies |-> <<>>]

\* The status codes a download server answers with.
Statuses == {StatusOK, 404}

\* The response body served at a URL: BodyLen chunks.
Body(url) == [k \in 1..BodyLen |-> <<url, k>>]

\* Causes wrapped by the classified errors.
CtxCanceled == "context canceled"
NetError == "connection reset"
IoError == "unexpected EOF"
FsError == "permission denied"
UrlError == "invalid URL escape"
SvcError == "build service error"

\* ------------------------------------------------------------- errors
NoError == <<>>

\* fmt.Errorf("%w: %w", sentinel, cause): the chain holds both.
Wrap(sentinel, cause) == <<sentinel>> \o cause

\* errors.Is(err, target)
Is(err, target) == \E i \in DOMAIN err : err[i] = target

\* ---------------------------------------------------------- K6Binary
NoPath == <<>>
EmptyBinary == [Path |-> NoPath, Dependencies |-> <<>>, Checksum |-> ""]

\* filepath.Join(p.bidDir, artifact.ID)
ArtifactDir(artifact) == <<CacheRoot, artifact.ID>>

\* filepath.Join(artifactDir, k6Binary)
BinPath(artifact) == ArtifactDir(artifact) \o <<k6Binary>>

\* Mutant: the checksum of the artifact is not passed on.
FoundBinary_NoChecksum(artifact) ==
    [Path |-> BinPath(artifact), Dependencies |-> artifact.Dependencies,
     Checksum |-> ""]

\* Lines 164-168 and 198-202: the K6Binary of a successful return.
FoundBinary(artifact) ==
    [Path |-> BinPath(artifact), Dependencies |-> artifact.Dependencies,
     Checksum |-> artifact.Checksum]

\* ------------------------------------------------------------- state
VARIABLES
    fs,        \* per build identifier: the artifact directory <cacheRoot>/<id>
    calls,     \* per goroutine: its current (or last) GetBinary call
    translation,  \* a dependency spec and what buildDeps made of it
    construction  \* a Config, the environment and what NewProvider made of them

vars == <<fs, calls, translation, construction>>

\* The value of a call's stat field before os.Stat has run.
NotCalled == <<"not called">>

\* dir: the directory is there; other: it holds entries besides the binary;
\* bin: the file k6 is there, with its content (data), permission (mode) and
\* whether a call that wrote it to its end has returned success (sealed).
NoDir == [dir |-> FALSE, other |-> FALSE, bin |-> FALSE,
          data |-> <<>>, mode |-> 0, sealed |-> FALSE]
OtherDir == [NoDir EXCEPT !.dir = TRUE, !.other = TRUE]

\* The value of a call's atStart field when the tree was not recorded.
NoTree == <<>>

IdleCall ==
    [pc |-> "idle", n |-> 0, ctxDone |-> FALSE, artifact |-> NoArtifact, stat |-> NotCalled,
     fd |-> "none", off |-> 0,
     err |-> NoError, ret |-> EmptyBinary,
     nBuild |-> 0, nReq |-> 0, reqURL |-> "", ops |-> {},
     cause |-> "none",
     atStart |-> NoTree, atRet |-> NoDir]

\* ------------------------------------------------------- buildDeps
\* The module names of a dependency spec; the first is the primary module.
ModuleNames == <<k6Module, "k6/x/sql", "k6/x/kubernetes", "k6/x/faker", "k6/x/exec">>
DepNames == {ModuleNames[i] : i \in 1..MaxDeps}

\* A parsed version constraint (*semver.Constraints), as the operator and the
\* version it was parsed from; nil when the entry carries none.
NilConstraints == [origfunc |-> "nil", orig |-> "nil"]
Constraints ==
    { [origfunc |-> ">=", orig |-> "0.50.0"], [origfunc |-> "", orig |-> "v0.9.0"] }

\* k6deps.Dependencies: the entries by name.
DependencySpecs ==
    UNION { [names -> [Name : DepNames, Constraints : Constraints \cup {NilConstraints}]]
            : names \in SUBSET DepNames }
Dependencies == {deps \in DependencySpecs : \A n \in DOMAIN deps : deps[n].Name = n}

\* dep.GetConstraints(): the constraints of the entry, any version when nil.
GetConstraints(dep) ==
    IF dep.Constraints = NilConstraints
    THEN [origfunc |-> "", orig |-> "*"]
    ELSE dep.Constraints

\* Constraints.String(): the text of the constraint.
String(constraints) == constraints.origfunc \o constraints.orig

\* Mutant: the entry of the primary module is added to the list as well.
Iterate_NoContinue(acc, dep) ==
    LET c == String(GetConstraints(dep))
        listed == [acc EXCEPT !.bdeps = Append(@, [Name |-> dep.Name, Constraints |-> c])]
    IN  IF dep.Name = k6Module THEN [listed EXCEPT !.k6constraint = c] ELSE listed

\* Lines 232-244: the body of the loop of buildDeps for one entry.
Iterate(acc, dep) ==
    IF dep.Name = k6Module
    THEN [acc EXCEPT !.k6constraint = String(GetConstraints(dep))]
    ELSE [acc EXCEPT !.bdeps = Append(@, [Name |-> dep.Name,
                                           Constraints |-> String(GetConstraints(dep))])]

\* Line 231: the loop over the entries, in the order range yields them.
RECURSIVE Range(_, _, _)
Range(deps, order, acc) ==
    IF order = <<>> THEN acc
    ELSE Range(deps, Tail(order), Iterate(acc, deps[Head(order)]))

\* Mutant: the primary constraint starts empty.
buildDeps_NoDefault(deps, order) ==
    Range(deps, order, [k6constraint |-> "", bdeps |-> <<>>])

\* Lines 227-247: buildDeps.
buildDeps(deps, order) ==
    Range(deps, order, [k6constraint |-> "*", bdeps |-> <<>>])

\* The orders in which range may yield the keys of a map.
Orders(keys) ==
    {o \in [1..Cardinality(keys) -> keys] :
        \A i, j \in DOMAIN o : o[i] = o[j] => i = j}

NoResult == [k6constraint |-> "", bdeps |-> <<>>]
NoTranslation == [deps |-> <<>>, called |-> FALSE, result |-> NoResult]

\* ------------------------------------------------------- NewProvider
\* The values of the fields of Config and of the two environment variables.
ProxyURLs == {"", "http://proxy:3128", BadURL}
ServiceURLs == {"", "https://build.svc", BadURL}
Configs ==
    [Platform : {"", "linux/arm64"}, BinDir : {"", CacheRoot},
     BuildServiceURL : ServiceURLs, DownloadProxyURL : ProxyURLs]
Environments == [K6_DOWNLOAD_PROXY : ProxyURLs, K6_BUILD_SERVICE_URL : ServiceURLs]

\* Cause of a build service client that cannot be made.
ClientError == "invalid build service config"

\* url.Parse(proxyURL), line 111.
ParseErr(rawURL) == IF rawURL = BadURL THEN <<UrlError>> ELSE NoError

\* client.NewBuildServiceClient, lines 125-129: the library decides which URLs
\* it rejects; one it can reach the service with is accepted.
NewBuildServiceClientErrs(srvURL) ==
    IF srvURL \in {"", BadURL} THEN {NoError, <<ClientError>>} ELSE {NoError}

NoProvider == [client |-> "", bidDir |-> "", buildSrv |-> "", platform |-> ""]

\* Lines 120-123: the build service URL NewProvider hands to the client library.
BuildSrvURL(config, env) ==
    IF config.BuildServiceURL = "" THEN env.K6_BUILD_SERVICE_URL ELSE config.BuildServiceURL

\* Line 131: return nil, err
ClientFailure(err) == err

\* Lines 98-144: NewProvider, given the error the client library answers.
NewProvider(config, env, clientErr) ==
    LET binDir == IF config.BinDir = "" THEN "tmp/k6provider/cache" ELSE config.BinDir
        proxyURL == IF config.DownloadProxyURL = ""
                    THEN env.K6_DOWNLOAD_PROXY ELSE config.DownloadProxyURL
        httpClient == IF proxyURL = "" THEN "http.DefaultClient" ELSE proxyURL
        buildSrvURL == BuildSrvURL(config, env)
        platform == IF config.Platform = "" THEN "GOOS/GOARCH" ELSE config.Platform
    IN  IF proxyURL # "" /\ ParseErr(proxyURL) # NoError
        THEN [provider |-> NoProvider, err |-> Wrap(ErrConfig, ParseErr(proxyURL)),
              why |-> "proxy"]
        ELSE IF clientErr # NoError
        THEN [provider |-> NoProvider, err |-> ClientFailure(clientErr), why |-> "client"]
        ELSE [provider |-> [client |-> httpClient, bidDir |-> binDir,
                            buildSrv |-> buildSrvURL, platform |-> platform],
              err |-> NoError, why |-> "none"]

NotConstructed == [provider |-> NoProvider, err |-> NoError, why |-> "none"]

\* The provider whose GetBinary calls are modelled: made of a configuration
\* with the cache directory and the build service URL set.
Constructed ==
    LET config == [Platform |-> "", BinDir |-> CacheRoot,
                   BuildServiceURL |-> "https://build.svc", DownloadProxyURL |-> ""]
        env == [K6_DOWNLOAD_PROXY |-> "", K6_BUILD_SERVICE_URL |-> ""]
    IN  [config |-> config, env |-> env, pc |-> "done",
         result |-> NewProvider(config, env, NoError)]

\* No binary is cached yet.  The directory of build "b" is already there
\* with other entries in it (left by another program); that of "a" is not.
Init ==
    /\ fs = [id \in BuildIDs |-> IF id = "b" THEN OtherDir ELSE NoDir]
    /\ calls = [c \in Calls |-> IdleCall]
    /\ translation = NoTranslation
    /\ construction = Constructed

\* ------------------------------------------------------- filesystem
ENOENT == "no such file or directory"

\* os.Stat(binPath): nil when the file is there, ENOENT when the file or its
\* directory is missing, another error when the lookup itself fails.
OsStat(f, id, fault) ==
    IF fault THEN <<FsError>>
    ELSE IF f[id].dir /\ f[id].bin THEN NoError
    ELSE <<ENOENT>>

\* Mutant: every error of the existence check is taken for 'not found'.
IsNotExist_AnyError(err) == err # NoError

\* os.IsNotExist(err)
IsNotExist(err) == Is(err, ENOENT)

\* os.MkdirAll(artifactDir, S_IRWXU): a directory that is there is left alone.
MkdirAll(f, id) == [f EXCEPT ![id].dir = TRUE]

\* Mutant: only the binary is removed (os.Remove(binPath)), the directory stays.
RemoveAll_BinaryOnly(f, id) ==
    [f EXCEPT ![id].bin = FALSE, ![id].data = <<>>, ![id].mode = 0,
              ![id].sealed = FALSE]

\* Mutant: the rollback is left out.
RemoveAll_Nothing(f, id) == f

\* Mutant: the cache root is removed (os.RemoveAll(p.bidDir)).
RemoveAll_CacheRoot(f, id) == [i \in DOMAIN f |-> NoDir]

\* os.RemoveAll(artifactDir): the directory and everything in it.
RemoveAll(f, id) == [f EXCEPT ![id] = NoDir]

\* The permission argument of os.OpenFile.
FilePerm == S_IRUSR + S_IXUSR + S_IWUSR

HasBit(mode, bit) == (mode \div bit) % 2 = 1

\* Mutant: the file is opened with O_EXCL, so one call at most creates it.
OpenErr_Excl(f, id, fault) ==
    IF fault THEN <<FsError>>
    ELSE IF ~f[id].dir THEN <<ENOENT>>
    ELSE IF f[id].bin THEN <<"file exists">>
    ELSE NoError

\* The error of os.OpenFile(binPath, O_WRONLY|O_CREATE, perm): the directory
\* must be there.
OpenErr(f, id, fault) ==
    IF fault THEN <<FsError>>
    ELSE IF ~f[id].dir THEN <<ENOENT>>
    ELSE NoError

\* O_CREATE without O_TRUNC and without O_EXCL: a file that is there is opened
\* as it is, a missing one is created empty with the given permission.
Creates(f, id) == ~f[id].bin

\* Mutant: the download goes to a temporary file, the path is left alone.
OpenOrCreate_Temp(f, id, perm) == f

OpenOrCreate(f, id, perm) ==
    IF Creates(f, id)
    THEN [f EXCEPT ![id].bin = TRUE, ![id].data = <<>>, ![id].mode = perm]
    ELSE f

\* A Write of one chunk at offset off of a file (offsets count chunks).
WriteAt(data, off, chunk) ==
    IF off < Len(data) THEN [data EXCEPT ![off + 1] = chunk]
    ELSE Append(data, chunk)

\* What is at <cacheRoot>/<id> and <cacheRoot>/<id>/k6.
Snapshot(f, id) == IF id \in DOMAIN f THEN f[id] ELSE NoDir

\* ----------------------------------------------------------- download
\* http.NewRequestWithContext(ctx, GET, from, nil) fails on a URL it cannot parse.
NewRequestErr(from) == IF from = BadURL THEN <<UrlError>> ELSE NoError

\* download, lines 206-209
RequestError(cause) == Wrap(ErrDownload, cause)

\* download, lines 211-214
DoError(cause) == Wrap(ErrDownload, cause)

\* download, lines 216-218: fmt.Errorf("%w: %s", ErrDownload, from)
StatusError(from) == <<ErrDownload>>

\* download, lines 222-224: the error of io.Copy is returned as it is
CopyError(cause) == cause

\* ---------------------------------------------------------- GetBinary
Active(c) == calls[c].pc \notin {"idle", "done"}

\* Mutant: the early return of the cache hit is missing.
AfterStat_NoEarlyReturn(err) ==
    IF err = NoError \/ Is(err, ENOENT) THEN "miss" ELSE "error"

\* The branch GetBinary takes on the result of os.Stat, lines 162-173.
AfterStat(err) ==
    IF err = NoError THEN "hit"
    ELSE IF ~IsNotExist(err) THEN "error"
    ELSE "miss"

\* The record of a call that returns (binary, err), with what is at its
\* artifact directory at that moment.
Returned(me, f, binary, err) ==
    [me EXCEPT !.pc = "done", !.ret = binary, !.err = err, !.off = 0,
               !.ctxDone = FALSE, !.atStart = NoTree,
               !.atRet = Snapshot(f, me.artifact.ID)]

\* Removing a directory leaves the handles open on its file on a removed file.
Detach(cs, id) ==
    [d \in Calls |->
        IF cs[d].artifact.ID = id /\ cs[d].fd = "open"
        THEN [cs[d] EXCEPT !.fd = "orphan"]
        ELSE cs[d]]

\* Lines 191-194: a failed download removes the artifact directory and the
\* error of download is returned as it is.  The destination file is not closed.
Rollback(c, err, why) ==
    LET id == calls[c].artifact.ID
        f == RemoveAll(fs, id)
        me == [calls[c] EXCEPT !.ops = @ \cup {"remove"}, !.cause = why]
    IN  /\ fs' = f
        /\ calls' = Detach([calls EXCEPT ![c] = Returned(me, f, EmptyBinary, err)], id)
        /\ UNCHANGED <<translation, construction>>

\* Mutant: the error of the build service is returned unwrapped.
BuildError_Unwrapped(cause) == cause

\* Line 154: fmt.Errorf("%w: %w", ErrBuild, err)
BuildError(cause) == Wrap(ErrBuild, cause)

\* Lines 172, 178, 187: fmt.Errorf("%w: %w", ErrBinary, err)
BinaryError(cause) == Wrap(ErrBinary, cause)

\* Mutant: the request is built without the context (http.NewRequest).
CtxAborts_Ignored(c) == FALSE

\* http.NewRequestWithContext ties the request to ctx: once ctx is done the
\* transport ends the request and the reads of its body with ctx's error.
CtxAborts(c) == calls[c].ctxDone

\* GetBinary is entered: buildDeps, then p.buildSrv.Build is called (line 152).
Start(c) ==
    /\ calls[c].pc \in {"idle", "done"}
    /\ calls[c].n < MaxCalls
    /\ calls' = [calls EXCEPT ![c] =
          [IdleCall EXCEPT !.pc = "build", !.n = calls[c].n + 1, !.nBuild = @ + 1]]
    /\ UNCHANGED <<fs, translation, construction>>

\* Lines 153-155: the build service fails (or the context ends the call).
BuildFail(c) ==
    /\ calls[c].pc = "build"
    /\ \E cause \in {SvcError} \cup (IF calls[c].ctxDone THEN {CtxCanceled} ELSE {}) :
          calls' = [calls EXCEPT ![c] =
              Returned([calls[c] EXCEPT !.cause = "build"], fs, EmptyBinary,
                       BuildError(<<cause>>))]
    /\ UNCHANGED <<fs, translation, construction>>

\* Line 152: the build service answers with an artifact.  From here on the
\* call works on the directory of artifact.ID.
BuildOK(c) ==
    /\ calls[c].pc = "build"
    /\ \E a \in Artifacts :
          calls' = [calls EXCEPT ![c].pc = "stat", ![c].artifact = a]
    /\ UNCHANGED <<fs, translation, construction>>

\* Lines 159-168: the binary is there.
StatHit(c) ==
    /\ calls[c].pc = "stat"
    /\ \E fault \in BOOLEAN :
          LET e == OsStat(fs, calls[c].artifact.ID, fault) IN
          /\ AfterStat(e) = "hit"
          /\ calls' = [calls EXCEPT ![c] =
                Returned([calls[c] EXCEPT !.stat = e], fs,
                         FoundBinary(calls[c].artifact), NoError)]
    /\ UNCHANGED <<fs, translation, construction>>

\* Lines 170-173: the existence check itself failed.
StatError(c) ==
    /\ calls[c].pc = "stat"
    /\ \E fault \in BOOLEAN :
          LET e == OsStat(fs, calls[c].artifact.ID, fault) IN
          /\ AfterStat(e) = "error"
          /\ calls' = [calls EXCEPT ![c] =
                Returned([calls[c] EXCEPT !.stat = e, !.cause = "stat"], fs,
                         EmptyBinary, BinaryError(e))]
    /\ UNCHANGED <<fs, translation, construction>>

\* Line 175: the binary is not there.
StatMiss(c) ==
    /\ calls[c].pc = "stat"
    /\ \E fault \in BOOLEAN :
          LET e == OsStat(fs, calls[c].artifact.ID, fault) IN
          /\ AfterStat(e) = "miss"
          /\ calls' = [calls EXCEPT ![c].pc = "mkdir", ![c].stat = e]
    /\ UNCHANGED <<fs, translation, construction>>

\* Lines 176-179: the directory cannot be created.
MkdirFail(c) ==
    /\ calls[c].pc = "mkdir"
    /\ calls' = [calls EXCEPT ![c] =
          Returned([calls[c] EXCEPT !.cause = "mkdir"], fs, EmptyBinary,
                   BinaryError(<<FsError>>))]
    /\ UNCHANGED <<fs, translation, construction>>

\* Line 176: the artifact directory is created.
Mkdir(c) ==
    /\ calls[c].pc = "mkdir"
    /\ fs' = MkdirAll(fs, calls[c].artifact.ID)
    /\ calls' = [calls EXCEPT ![c].pc = "open", ![c].ops = @ \cup {"mkdir"}]
    /\ UNCHANGED <<translation, construction>>

\* Lines 181-188: the open fails; nothing is removed.
OpenFail(c) ==
    /\ calls[c].pc = "open"
    /\ \E fault \in BOOLEAN :
          LET e == OpenErr(fs, calls[c].artifact.ID, fault) IN
          /\ e # NoError
          /\ calls' = [calls EXCEPT ![c] =
                Returned([calls[c] EXCEPT !.cause = "open"], fs, EmptyBinary,
                         BinaryError(e))]
    /\ UNCHANGED <<fs, translation, construction>>

\* Lines 181-185: the destination file is opened for writing, created if missing.
OpenFile(c) ==
    LET id == calls[c].artifact.ID IN
    /\ calls[c].pc = "open"
    /\ OpenErr(fs, id, FALSE) = NoError
    /\ fs' = OpenOrCreate(fs, id, FilePerm)
    /\ calls' = [calls EXCEPT ![c].pc = "do", ![c].fd = "open",
                              ![c].ops = @ \cup {"open"}]
    /\ UNCHANGED <<translation, construction>>

\* Lines 206-209: the request cannot be built.
RequestFail(c) ==
    /\ calls[c].pc = "do"
    /\ NewRequestErr(calls[c].artifact.URL) # NoError
    /\ Rollback(c, RequestError(NewRequestErr(calls[c].artifact.URL)), "request")

\* Line 211: the request is sent.
Do(c) ==
    /\ calls[c].pc = "do"
    /\ NewRequestErr(calls[c].artifact.URL) = NoError
    /\ calls' = [calls EXCEPT ![c].pc = "resp", ![c].nReq = @ + 1,
                              ![c].reqURL = calls[c].artifact.URL]
    /\ UNCHANGED <<fs, translation, construction>>

\* Mutant: a failed request is sent again.
RespError_Retry(c) ==
    /\ calls[c].pc = "resp"
    /\ calls[c].nReq < 2
    /\ calls' = [calls EXCEPT ![c].pc = "do"]
    /\ UNCHANGED <<fs, translation, construction>>

\* Lines 211-214: the transport fails.
RespError(c) ==
    /\ calls[c].pc = "resp"
    /\ Rollback(c, DoError(<<NetError>>), "transport")

\* Lines 211-214: the context ends the request in flight.
RespCancelled(c) ==
    /\ calls[c].pc = "resp"
    /\ CtxAborts(c)
    /\ Rollback(c, DoError(<<CtxCanceled>>), "cancel")

\* Lines 216-218: the server answers with another status than 200.
RespStatus(c) ==
    /\ calls[c].pc = "resp"
    /\ \E status \in Statuses :
          /\ status # StatusOK
          /\ Rollback(c, StatusError(calls[c].artifact.URL), "status")

\* Line 216: the server answers 200 and the body is about to be copied.
RespOK(c) ==
    /\ calls[c].pc = "resp"
    /\ \E status \in Statuses :
          /\ status = StatusOK
          /\ calls' = [calls EXCEPT ![c].pc = "copy"]
    /\ UNCHANGED <<fs, translation, construction>>

\* Line 222: io.Copy writes the next chunk of the body through the handle.
CopyWrite(c) ==
    LET me == calls[c]
        id == me.artifact.ID
    IN  /\ me.pc = "copy"
        /\ me.off < BodyLen
        /\ fs' = IF me.fd = "open"
                 THEN [fs EXCEPT ![id].data =
                          WriteAt(@, me.off, Body(me.reqURL)[me.off + 1])]
                 ELSE fs
        /\ calls' = [calls EXCEPT ![c].off = @ + 1, ![c].ops = @ \cup {"write"}]
        /\ UNCHANGED <<translation, construction>>

\* Lines 222-224: reading the body or writing the file fails.
CopyFail(c) ==
    /\ calls[c].pc = "copy"
    /\ Rollback(c, CopyError(<<IoError>>), "copy")

\* Lines 222-224: the context ends while the body is streamed.
CopyCancelled(c) ==
    /\ calls[c].pc = "copy"
    /\ CtxAborts(c)
    /\ Rollback(c, CopyError(<<CtxCanceled>>), "copycancel")

\* Lines 196-202: the body is at its end, the file is closed, the path returned.
Finish(c) ==
    LET me == calls[c]
        id == me.artifact.ID
        f == IF me.fd = "open" THEN [fs EXCEPT ![id].sealed = TRUE] ELSE fs
    IN  /\ me.pc = "copy"
        /\ me.off = BodyLen
        /\ fs' = f
        /\ calls' = [calls EXCEPT ![c] =
              Returned([me EXCEPT !.fd = "none"], f,
                       FoundBinary(me.artifact), NoError)]
        /\ UNCHANGED <<translation, construction>>

\* The caller cancels the context, or its deadline passes.  The filesystem
\* calls do not look at the context, so it matters only where the call waits
\* for the network.
Cancel(c) ==
    /\ calls[c].pc \in {"build", "resp", "copy"}
    /\ ~calls[c].ctxDone
    /\ calls' = [calls EXCEPT ![c].ctxDone = TRUE]
    /\ UNCHANGED <<fs, translation, construction>>

\* The steps of a call after the answer of the build service.
Work(c) ==
    \/ StatHit(c) \/ StatError(c) \/ StatMiss(c)
    \/ MkdirFail(c) \/ Mkdir(c)
    \/ OpenFail(c) \/ OpenFile(c)
    \/ RequestFail(c) \/ Do(c)
    \/ RespError(c) \/ RespCancelled(c) \/ RespStatus(c) \/ RespOK(c)
    \/ CopyWrite(c) \/ CopyFail(c) \/ CopyCancelled(c)
    \/ Finish(c)
    \/ Cancel(c)

Step(c) == BuildFail(c) \/ BuildOK(c) \/ Work(c)

Next == \E c \in Calls : Start(c) \/ Step(c)

Spec == Init /\ [][Next]_vars

\* Calls that do not overlap: a call starts only when no other is running.
\* atStart keeps the cache tree the call found.
SeqStart(c) ==
    /\ \A d \in Calls : ~Active(d)
    /\ calls[c].n < MaxCalls
    /\ calls' = [calls EXCEPT ![c] =
          [IdleCall EXCEPT !.pc = "build", !.n = calls[c].n + 1, !.nBuild = @ + 1,
                           !.atStart = fs]]
    /\ UNCHANGED <<fs, translation, construction>>

SeqNext == \E c \in Calls : SeqStart(c) \/ Step(c)

SeqSpec == Init /\ [][SeqNext]_vars

\* Overlapping calls that never work on the same build identifier at the same
\* time: the build service answers a call with an identifier no running call
\* works on.
DistinctBuildOK(c) ==
    /\ BuildOK(c)
    /\ \A d \in Calls \ {c} : Active(d) => calls[d].artifact.ID # calls'[c].artifact.ID

DistinctNext ==
    \E c \in Calls : Start(c) \/ BuildFail(c) \/ DistinctBuildOK(c) \/ Work(c)

DistinctSpec == Init /\ [][DistinctNext]_vars

\* The goroutines are scheduled fairly, and a request whose context is done
\* is ended by the transport; the servers owe no answer.
FairSpec ==
    /\ Spec
    /\ \A c \in Calls : WF_vars(RespCancelled(c)) /\ WF_vars(CopyCancelled(c))

\* buildDeps on its own: a dependency spec is given, and buildDeps is called
\* on it (line 150).
DepsInit ==
    /\ fs = [id \in BuildIDs |-> IF id = "b" THEN OtherDir ELSE NoDir]
    /\ calls = [c \in Calls |-> IdleCall]
    /\ construction = Constructed
    /\ \E deps \in Dependencies :
          translation = [deps |-> deps, called |-> FALSE, result |-> NoResult]

BuildDepsCall ==
    /\ ~translation.called
    /\ \E order \in Orders(DOMAIN translation.deps) :
          translation' = [translation EXCEPT
              !.called = TRUE, !.result = buildDeps(translation.deps, order)]
    /\ UNCHANGED <<fs, calls, construction>>

DepsNext == BuildDepsCall

DepsSpec == DepsInit /\ [][DepsNext]_vars

\* NewProvider on its own: a Config and an environment are given, NewProvider
\* is called and, when it returned a Provider, the Provider can be used.
ProviderInit ==
    /\ fs = [id \in BuildIDs |-> IF id = "b" THEN OtherDir ELSE NoDir]
    /\ calls = [c \in Calls |-> IdleCall]
    /\ translation = NoTranslation
    /\ \E config \in Configs, env \in Environments :
          construction = [config |-> config, env |-> env, pc |-> "new",
                          result |-> NotConstructed]

NewProviderCall ==
    /\ construction.pc = "new"
    /\ \E clientErr \in NewBuildServiceClientErrs(
                            BuildSrvURL(construction.config, construction.env)) :
          construction' = [construction EXCEPT
              !.pc = "done",
              !.result = NewProvider(construction.config, construction.env, clientErr)]
    /\ UNCHANGED <<fs, calls, translation>>

\* The caller checks the error and calls GetBinary on the Provider.
UseProvider ==
    /\ construction.pc = "done"
    /\ construction.result.err = NoError
    /\ construction' = [construction EXCEPT !.pc = "used"]
    /\ UNCHANGED <<fs, calls, translation>>

ProviderNext == NewProviderCall \/ UseProvider

ProviderSpec == ProviderInit /\ [][ProviderNext]_vars

\* ------------------------------------------------------------- claims
Done(c) == calls[c].pc = "done"
Succeeded(c) == Done(c) /\ calls[c].err = NoError
Failed(c) == Done(c) /\ calls[c].err # NoError

\* The existence check of call c found the file (os.Stat returned nil).
SawFile(c) == calls[c].stat = NoError

\* The existence check of call c found no file (os.Stat returned ENOENT).
SawNoFile(c) == Is(calls[c].stat, ENOENT)

\* The existence check of call c failed with another error than 'not found'.
StatBroke(c) ==
    /\ calls[c].stat \notin {NotCalled, NoError}
    /\ ~Is(calls[c].stat, ENOENT)

\* The complete content is at the path, executable by its owner.
CompleteBinary(file, url) ==
    /\ file.dir /\ file.bin
    /\ HasBit(file.mode, S_IXUSR)
    /\ file.data = Body(url)

\* C1: whenever a GetBinary call returns success, a file exists at the
\* returned path <cacheRoot>/<buildID>/k6 at the moment of the return, in
\* every interleaving with other calls for the same build identifier.
C1_FileExistsAtSuccess ==
    \A c \in Calls :
        Succeeded(c) =>
            /\ calls[c].ret.Path = BinPath(calls[c].artifact)
            /\ calls[c].atRet.dir /\ calls[c].atRet.bin

\* C2: when the download fails with a non-200 response, the artifact's cache
\* directory does not exist when GetBinary returns and the error returned is
\* of the download class.
C2_Non200RollsBack ==
    \A c \in Calls :
        (Done(c) /\ calls[c].cause = "status") =>
            /\ ~calls[c].atRet.dir
            /\ Is(calls[c].err, ErrDownload)

C2_Witness ==
    \E c \in Calls :
        /\ Done(c) /\ calls[c].cause = "status"
        /\ calls[c].ops = {"mkdir", "open", "remove"}
        /\ ~fs[calls[c].artifact.ID].dir

\* C3: when a file is at the deterministic path and the existence check finds
\* it, GetBinary returns that path, issues no download request and creates,
\* opens, writes and removes nothing.
C3_HitTouchesNothing ==
    \A c \in Calls :
        (Done(c) /\ SawFile(c)) =>
            /\ calls[c].atRet.bin
            /\ calls[c].err = NoError
            /\ calls[c].ret.Path = BinPath(calls[c].artifact)
            /\ calls[c].nReq = 0
            /\ calls[c].ops = {}

C3_Witness ==
    \E c \in Calls :
        /\ Done(c) /\ SawFile(c)
        /\ calls[c].ret.Path = <<CacheRoot, "a", k6Binary>>
        /\ fs["a"].bin /\ fs["a"].sealed

\* C4: when no file is at the deterministic path (and the directory and the
\* destination file can be created and the request built), GetBinary issues
\* exactly one download request, to the artifact's URL, and when it returns
\* success a file executable by its owner with the complete downloaded
\* content is at the path.
C4_MissDownloadsOnce ==
    \A c \in Calls :
        (Done(c) /\ SawNoFile(c) /\ calls[c].cause \notin {"mkdir", "open", "request"}) =>
            /\ calls[c].nReq = 1
            /\ calls[c].reqURL = calls[c].artifact.URL
            /\ Succeeded(c) => CompleteBinary(calls[c].atRet, calls[c].artifact.URL)

\* C5: when the build service fails, GetBinary returns a build-class error
\* and has touched nothing in the filesystem and requested no download.
C5_BuildFailureTouchesNothing ==
    \A c \in Calls :
        (Done(c) /\ calls[c].cause = "build") =>
            /\ Is(calls[c].err, ErrBuild)
            /\ calls[c].ops = {}
            /\ calls[c].nReq = 0
            /\ calls[c].fd = "none"

C5_Witness ==
    \E c \in Calls :
        /\ Done(c) /\ calls[c].cause = "build"
        /\ calls[c].nBuild = 1
        /\ calls[c].err = <<ErrBuild, SvcError>>

\* C6: every error GetBinary returns is of the build, binary-creation or
\* download class, and every failure of the download step (request, status,
\* transport, cancellation, streaming the body) is of the download class.
DownloadCauses == {"request", "transport", "cancel", "status", "copy", "copycancel"}

C6_ErrorsAreClassified ==
    \A c \in Calls :
        /\ Failed(c) =>
              \/ Is(calls[c].err, ErrBuild)
              \/ Is(calls[c].err, ErrBinary)
              \/ Is(calls[c].err, ErrDownload)
        /\ (Done(c) /\ calls[c].cause \in DownloadCauses) =>
              Is(calls[c].err, ErrDownload)

\* C7: when the download fails because the caller's context is cancelled or
\* timed out, before the response or while the body is streamed, GetBinary
\* has removed the artifact directory when it returns and returns an error;
\* and a call whose context is done while it waits for the download returns.
C7_CancelledRollsBack ==
    \A c \in Calls :
        (Done(c) /\ calls[c].cause \in {"cancel", "copycancel"}) =>
            /\ ~calls[c].atRet.dir
            /\ "remove" \in calls[c].ops
            /\ calls[c].err # NoError
            /\ Is(calls[c].err, CtxCanceled)

C7_CancelledReturns ==
    /\ []C7_CancelledRollsBack
    /\ \A c \in Calls :
          (calls[c].ctxDone /\ calls[c].pc \in {"resp", "copy"}) ~> Done(c)

C7_Witness ==
    \E c \in Calls :
        /\ Done(c) /\ calls[c].cause = "copycancel"
        /\ "write" \in calls[c].ops
        /\ ~fs[calls[c].artifact.ID].dir

\* C8: once the binary of a build identifier is fully written and the call
\* that wrote it has returned success, no step of any call writes to the
\* file, truncates it or removes it or its directory.
WritesTo(c, id) ==
    /\ calls[c].artifact.ID = id
    /\ calls[c].fd = "open"
    /\ calls[c].pc = "copy"
    /\ calls'[c].off = calls[c].off + 1

C8_FrozenOnceWritten ==
    [][\A id \in BuildIDs :
          fs[id].sealed =>
              /\ fs'[id] = fs[id]
              /\ \A c \in Calls : ~WritesTo(c, id)]_vars

\* C9: with calls that do not overlap, starting without binaries in the
\* cache, every call that takes the cache-hit path finds a file whose
\* download was completed by a call that returned success.
C9_HitFindsCompletedDownload ==
    \A c \in Calls :
        (Done(c) /\ SawFile(c)) =>
            /\ calls[c].atRet.sealed
            /\ Len(calls[c].atRet.data) = BodyLen
            /\ \E a \in Artifacts :
                  a.ID = calls[c].artifact.ID /\ calls[c].atRet.data = Body(a.URL)

C9_Witness ==
    \E c, d \in Calls :
        /\ calls[c].n = 2 /\ Done(c) /\ SawFile(c)
        /\ Failed(d) /\ "write" \in calls[d].ops
        /\ calls[d].artifact.ID = calls[c].artifact.ID

\* C10: when the existence check fails with another error than 'not found',
\* GetBinary returns a binary-creation error and creates no directory, opens
\* and writes no file, requests no download and removes nothing.
C10_StatErrorTouchesNothing ==
    \A c \in Calls :
        StatBroke(c) =>
            /\ Done(c)
            /\ Is(calls[c].err, ErrBinary)
            /\ calls[c].ops = {}
            /\ calls[c].nReq = 0
            /\ calls[c].fd = "none"

C10_Witness ==
    \E c \in Calls :
        /\ StatBroke(c)
        /\ calls[c].err = <<ErrBinary, FsError>>
        /\ fs[calls[c].artifact.ID].bin

\* C11: a GetBinary call for one build identifier never creates, writes or
\* removes anything under the directory of another build identifier, and a
\* call that shares its directory with no other call reaches the outcome of
\* a call that runs alone, whatever calls for other identifiers do meanwhile
\* (overlapping calls, no two of them on the same identifier at a time).
TouchesOnlyOwnDir ==
    \A id \in BuildIDs :
        fs'[id] # fs[id] =>
            \A c \in Calls : calls'[c] # calls[c] => calls[c].artifact.ID = id

\* What a call that runs alone reaches: on success the sealed, complete,
\* executable binary is at the path; after a failed download the directory is
\* gone.
AloneOutcome(c) ==
    /\ Succeeded(c) =>
          /\ calls[c].atRet.dir /\ calls[c].atRet.bin /\ calls[c].atRet.sealed
          /\ HasBit(calls[c].atRet.mode, S_IXUSR)
          /\ \E a \in Artifacts :
                a.ID = calls[c].artifact.ID /\ calls[c].atRet.data = Body(a.URL)
    /\ (Done(c) /\ calls[c].cause \in DownloadCauses) => ~calls[c].atRet.dir

C11_OtherIdsDoNotInterfere ==
    /\ [][TouchesOnlyOwnDir]_vars
    /\ [](\A c \in Calls : AloneOutcome(c))

C11_Witness ==
    \E c, d \in Calls :
        /\ Succeeded(c) /\ SawNoFile(c)
        /\ calls[c].artifact.ID = "a"
        /\ calls[d].pc = "copy" /\ calls[d].off = BodyLen /\ calls[d].n = 1
        /\ calls[d].artifact.ID = "b" /\ fs["b"].data = Body(calls[d].reqURL)

\* C12: within one invocation of GetBinary the build service is called at
\* most once and at most one download request is sent, whatever fails; a
\* call that failed has not tried again.
C12_NoRetry ==
    \A c \in Calls :
        /\ calls[c].nBuild <= 1
        /\ calls[c].nReq <= 1
        /\ Failed(c) => calls[c].nBuild = 1
        /\ (Failed(c) /\ calls[c].cause \in {"transport", "status", "cancel", "copy", "copycancel"})
              => calls[c].nReq = 1

C12_Witness ==
    \E c \in Calls :
        /\ Failed(c) /\ calls[c].cause = "transport"
        /\ calls[c].nBuild = 1 /\ calls[c].nReq = 1
        /\ \E d \in Calls : Failed(d) /\ calls[d].cause = "build" /\ calls[d].nReq = 0

\* C13: buildDeps yields the primary constraint "*" for a dependency spec
\* with no entry named k6, and the constraint string of the entry named k6
\* when there is one.
C13_PrimaryConstraint ==
    LET deps == translation.deps
    IN  translation.called =>
            translation.result.k6constraint =
                IF k6Module \in DOMAIN deps
                THEN String(GetConstraints(deps[k6Module]))
                ELSE "*"

C13_Witness ==
    /\ translation.called
    /\ DOMAIN translation.deps = DepNames \ {k6Module}
    /\ translation.result.k6constraint = "*"
    /\ \E n \in DOMAIN translation.deps :
          translation.deps[n].Constraints # NilConstraints

\* C14: for a dependency spec with N entries not named k6, the list buildDeps
\* yields has exactly N entries, one for each of them with its name and its
\* constraint string, and none named k6.
C14_AuxiliaryList ==
    LET deps == translation.deps
        bdeps == translation.result.bdeps
        others == DOMAIN deps \ {k6Module}
    IN  translation.called =>
            /\ Len(bdeps) = Cardinality(others)
            /\ \A n \in others :
                  \E i \in DOMAIN bdeps :
                      bdeps[i] = [Name |-> n, Constraints |-> String(GetConstraints(deps[n]))]
            /\ \A i \in DOMAIN bdeps : bdeps[i].Name # k6Module

C14_Witness ==
    /\ translation.called
    /\ DOMAIN translation.deps = DepNames
    /\ Len(translation.result.bdeps) = MaxDeps - 1
    /\ \E i \in DOMAIN translation.result.bdeps :
          translation.result.bdeps[i].Constraints = ">=0.50.0"
    /\ translation.result.k6constraint = "v0.9.0"

\* C15: on every successful return of GetBinary, by the cache hit and by the
\* download alike, the path is cacheRoot/artifact.ID/k6 and the dependencies
\* and the checksum are those of the artifact the build service answered this
\* call with.
C15_ReturnsArtifactData ==
    \A c \in Calls :
        Succeeded(c) =>
            /\ calls[c].artifact \in Artifacts
            /\ calls[c].ret.Path = <<CacheRoot, calls[c].artifact.ID, "k6">>
            /\ calls[c].ret.Dependencies = calls[c].artifact.Dependencies
            /\ calls[c].ret.Checksum = calls[c].artifact.Checksum

C15_Witness ==
    \E c, d \in Calls :
        /\ Succeeded(c) /\ SawFile(c) /\ calls[c].ret.Checksum = "sum-b"
        /\ Succeeded(d) /\ SawNoFile(d) /\ calls[d].ret.Checksum = "sum-a"
        /\ calls[d].ret.Dependencies = <<"k6", "v0.50.0">>

\* C16: every invalid configuration NewProvider detects (a proxy URL that
\* does not parse, a build service client that cannot be made) yields an
\* error of the class ErrConfig and no Provider, so that no GetBinary call is
\* made on a provider of an invalid configuration.
C16_InvalidConfigIsErrConfig ==
    /\ (construction.pc # "new" /\ construction.result.err # NoError) =>
          /\ Is(construction.result.err, ErrConfig)
          /\ construction.result.provider = NoProvider
    /\ construction.pc = "used" => construction.result.provider # NoProvider

\* C17: nothing in GetBinary makes a call wait for, or give way to, another
\* call for the same build identifier: while no file is at the path the
\* existence check of every call misses, while the directory is there every
\* call can open the destination file, and every call that opened it can send
\* its request, wherever the other calls are.  So two calls can both miss,
\* both open the file and both send a request (C17_Witness).
C17_SameIdNotSerialised ==
    \A c \in Calls :
        LET id == calls[c].artifact.ID IN
        /\ (calls[c].pc = "stat" /\ ~fs[id].bin) => ENABLED StatMiss(c)
        /\ calls[c].pc = "mkdir" => ENABLED Mkdir(c)
        /\ (calls[c].pc = "open" /\ fs[id].dir) => ENABLED OpenFile(c)
        /\ (calls[c].pc = "do" /\ calls[c].artifact.URL # BadURL)
              => ENABLED Do(c)

C17_Witness ==
    \E c, d \in Calls :
        /\ c # d /\ calls[c].artifact.ID = calls[d].artifact.ID
        /\ SawNoFile(c) /\ SawNoFile(d)
        /\ calls[c].fd = "open" /\ calls[d].fd = "open"
        /\ calls[c].pc \in {"resp", "copy"} /\ calls[d].pc \in {"resp", "copy"}
        /\ calls[c].nReq = 1 /\ calls[d].nReq = 1

\* C18: the destination file is at its path from the open on, before the
\* download has started: while a call holds it open and has not returned, the
\* existence check of another call for the same build identifier finds the
\* file and that call can return success.  So a call can return success on a
\* file whose download is incomplete (C18_Witness).
C18_HitBeforeDownloadEnds ==
    \A c, d \in Calls :
        ( /\ calls[d].pc \in {"do", "resp", "copy"} /\ calls[d].fd = "open"
          /\ calls[c].pc = "stat" /\ calls[c].artifact.ID = calls[d].artifact.ID )
        => /\ OsStat(fs, calls[d].artifact.ID, FALSE) = NoError
           /\ ENABLED StatHit(c)

C18_Witness ==
    \E c, d \in Calls :
        /\ Succeeded(c) /\ SawFile(c) /\ calls[c].ops = {}
        /\ calls[c].atRet.bin /\ ~calls[c].atRet.sealed
        /\ Len(calls[c].atRet.data) < BodyLen
        /\ calls[d].artifact.ID = calls[c].artifact.ID
        /\ calls[d].pc \in {"do", "resp", "copy"} /\ calls[d].fd = "open"

\* C19: a GetBinary call that returns an error leaves the cache directory
\* tree exactly as it was when the call started: what the call created
\* is removed and nothing that was there before is.  (Calls that do not
\* overlap: nothing else changes the directory meanwhile.)
ReturnsError(c) ==
    calls[c].pc # "done" /\ calls'[c].pc = "done" /\ calls'[c].err # NoError

C19_ErrorLeavesCacheAsFound ==
    [][\A c \in Calls :
          ReturnsError(c) => fs' = calls[c].atStart]_vars

\* C20: every handle GetBinary opened on the destination file is closed when
\* GetBinary returns, on the success path and on every error path: no call
\* has returned with its handle outstanding.
C20_HandleClosedAtReturn ==
    \A c \in Calls : Done(c) => calls[c].fd = "none"

====
